---------------------------- MODULE Spec2Model ----------------------------
(***************************************************************************)
(* IMF demuxer, libavformat/imfdec.c: package open (imf_read_header),      *)
(* the Asset Map loader (parse_assetmap), the Asset Map parser             *)
(* (parse_imf_asset_map_from_xml_dom), the registry (imf_asset_map_alloc,  *)
(* imf_asset_map_free) and package close (imf_close).                      *)
(*                                                                         *)
(* Strings are sequences of characters.  An optional XML child element is  *)
(* a sequence of length 0 (absent) or 1 (present).                         *)
(***************************************************************************)
EXTENDS Integers, Sequences, FiniteSets, TLC

(***************************************************************************)
(* Bounds of the model.                                                    *)
(***************************************************************************)
\* children of AssetList in a document
MaxChildren == 4
\* children of AssetList that are not one of the two plain Assets
MaxSpecial == 1
\* close calls made on the context after open returned
MaxCloses == 2

(***************************************************************************)
(* Error codes (libavutil/error.h) and object sizes of the LP64 build.     *)
(***************************************************************************)
AVERROR_INVALIDDATA == -1094995529
AVERROR_BUG == -558323010
AVERROR_EIO == -5
\* sizeof(IMFAssetLocator): a 16-byte uuid and a char pointer
SizeofAssetLocator == 24
\* sizeof(IMFAssetLocator *): one slot of IMFAssetMap.assets
SizeofPointer == 8

(***************************************************************************)
(* Strings.                                                                *)
(***************************************************************************)
\* av_strcasecmp folds ASCII case before comparing
av_tolower(ch) ==
    CASE ch = "A" -> "a"
      [] ch = "S" -> "s"
      [] ch = "E" -> "e"
      [] ch = "T" -> "t"
      [] ch = "M" -> "m"
      [] ch = "P" -> "p"
      [] OTHER -> ch

av_strcasecmp(a, b) ==
    IF /\ Len(a) = Len(b)
       /\ \A i \in 1..Len(a) : av_tolower(a[i]) = av_tolower(b[i])
    THEN 0 ELSE 1

TagAssetMap == <<"A", "s", "s", "e", "t", "M", "a", "p">>
TagAssetMapLower == <<"a", "s", "s", "e", "t", "m", "a", "p">>
TagAsset == <<"A", "s", "s", "e", "t">>
TagAssetLower == <<"a", "s", "s", "e", "t">>
TagOther == <<"M", "e", "t", "a">>

\* av_dirname: the path up to its last "/", "." when it has none
LastSlash(p) ==
    LET S == {i \in 1..Len(p) : p[i] = "/"}
    IN IF S = {} THEN 0 ELSE CHOOSE i \in S : \A j \in S : j <= i

av_dirname(p) ==
    LET k == LastSlash(p)
    IN IF k = 0 THEN <<".">>
       ELSE IF k = 1 THEN <<"/">>
       ELSE SubSeq(p, 1, k - 1)

\* a URL scheme: letters, then "://"
HasScheme(p) ==
    \E i \in 2..Len(p) :
        /\ i + 2 <= Len(p)
        /\ p[i] = ":" /\ p[i + 1] = "/" /\ p[i + 2] = "/"
        /\ \A j \in 1..(i - 1) : p[j] \notin {"/", ":", "."}

IsAbsolutePath(p) == Len(p) > 0 /\ (p[1] = "/" \/ HasScheme(p))

\* the Path Resolver: an absolute path is returned unchanged, a relative one
\* is joined to the base directory with one separator; a NULL or empty
\* component leaves the base directory
av_append_path_component(base, component) ==
    LET b == IF base = <<>> THEN <<".">> ELSE base
    IN IF component = <<>> \/ component[1] = <<>> THEN b
       ELSE IF IsAbsolutePath(component[1]) THEN component[1]
       ELSE IF b[Len(b)] = "/" THEN b \o component[1]
       ELSE b \o <<"/">> \o component[1]

(***************************************************************************)
(* UUID text.  The model's identifiers are one byte long: two hexadecimal  *)
(* digits, either case.                                                    *)
(***************************************************************************)
HexValue(ch) ==
    CASE ch = "0" -> 0 [] ch = "1" -> 1 [] ch = "2" -> 2
      [] ch = "a" -> 10 [] ch = "A" -> 10
      [] ch = "b" -> 11 [] ch = "B" -> 11
      [] OTHER -> -1

IsUuidText(t) ==
    /\ Len(t) = 2
    /\ HexValue(t[1]) >= 0
    /\ HexValue(t[2]) >= 0

DecodeUuid(t) == 16 * HexValue(t[1]) + HexValue(t[2])

\* xml_read_UUID(element, uuid): 0 when the element's text decodes, nonzero
\* when the element is missing, empty or not a UUID
xml_read_UUID(element) ==
    IF element # <<>> /\ IsUuidText(element[1]) THEN 0 ELSE 1

(***************************************************************************)
(* Documents.                                                              *)
(***************************************************************************)
PathRel == <<"v">>
PathRel2 == <<"w">>
PathAbs == <<"/", "x">>
PathUrl == <<"h", ":", "/", "/", "c">>

Chunk(p) == [path |-> p]
Element(tag, id, chunklist) == [name |-> tag, id |-> id, chunklist |-> chunklist]

\* the two plain Assets
PlainKinds ==
    { Element(TagAsset, <<<<"a", "1">>>>, << <<Chunk(<<PathRel>>)>> >>),
      Element(TagAsset, <<<<"b", "2">>>>, << <<Chunk(<<PathAbs>>)>> >>) }

\* well-formed Assets of other shapes: a lower-case tag, an upper-case
\* identifier and a URL; a ChunkList of two Chunks
OtherGoodKinds ==
    { Element(TagAssetLower, <<<<"A", "1">>>>, << <<Chunk(<<PathUrl>>)>> >>),
      Element(TagAsset, <<<<"b", "2">>>>,
              << <<Chunk(<<PathRel>>), Chunk(<<PathRel2>>)>> >>) }

\* children that are not Assets, and Assets missing a part
BrokenKinds ==
    { Element(TagOther, <<>>, <<>>),
      Element(TagAsset, <<>>, << <<Chunk(<<PathRel>>)>> >>),
      Element(TagAsset, <<<<>>>>, << <<Chunk(<<PathRel>>)>> >>),
      Element(TagAsset, <<<<"z", "z">>>>, << <<Chunk(<<PathRel>>)>> >>),
      Element(TagAsset, <<<<"a", "1">>>>, <<>>),
      Element(TagAsset, <<<<"a", "1">>>>, << <<>> >>),
      Element(TagAsset, <<<<"a", "1">>>>, << <<Chunk(<<>>)>> >>),
      Element(TagAsset, <<<<"a", "1">>>>, << <<Chunk(<<<<>>>>)>> >>) }

SpecialKinds == OtherGoodKinds \cup BrokenKinds
Kinds == PlainKinds \cup SpecialKinds

ChildLists ==
    UNION { { f \in [1..n -> Kinds] :
                Cardinality({i \in 1..n : f[i] \in SpecialKinds}) <= MaxSpecial }
            : n \in 0..MaxChildren }

Document(root, assetlist) == [parsed |-> TRUE, root |-> root, assetlist |-> assetlist]

\* xmlReadMemory returned NULL
NullDoc == [parsed |-> FALSE, root |-> <<>>, assetlist |-> <<>>]

OnePlain == CHOOSE k \in PlainKinds : k.id = <<<<"a", "1">>>>

Documents ==
    { Document(<<TagAssetMap>>, <<cs>>) : cs \in ChildLists }
    \cup { NullDoc,
           Document(<<>>, <<>>),
           Document(<<TagOther>>, << <<OnePlain>> >>),
           Document(<<TagAssetMap>>, <<>>),
           Document(<<TagAssetMapLower>>, << <<OnePlain>> >>) }


\* a node of the document tree below AssetList: the asset-th child of
\* AssetList, its ChunkList, or the chunk-th Chunk of that ChunkList
NullNode == [level |-> "NULL", asset |-> 0, chunk |-> 0]
AssetNode(i) == [level |-> "Asset", asset |-> i, chunk |-> 0]
ChunkListNode(i) == [level |-> "ChunkList", asset |-> i, chunk |-> 0]
ChunkNode(i, j) == [level |-> "Chunk", asset |-> i, chunk |-> j]

Children(d) == d.assetlist[1]
AssetOf(d, n) == Children(d)[n.asset]
ChunksOf(d, n) == AssetOf(d, n).chunklist[1]

\* node->name of a child of AssetList
NodeName(d, n) == AssetOf(d, n).name

\* xmlFirstElementChild of AssetList
xmlFirstElementChild(d) ==
    IF Len(Children(d)) > 0 THEN AssetNode(1) ELSE NullNode

xmlNextElementSibling(d, n) ==
    CASE n.level = "Asset" ->
           IF n.asset < Len(Children(d)) THEN AssetNode(n.asset + 1) ELSE NullNode
      [] n.level = "Chunk" ->
           IF n.chunk < Len(ChunksOf(d, n)) THEN ChunkNode(n.asset, n.chunk + 1)
           ELSE NullNode
      [] OTHER -> NullNode

\* node->parent
Parent(n) ==
    CASE n.level = "Chunk" -> ChunkListNode(n.asset)
      [] n.level = "ChunkList" -> AssetNode(n.asset)
      [] OTHER -> NullNode

\* xml_get_child_element_by_name(node, "Id"): the element's text when present
ChildId(d, n) == AssetOf(d, n).id

\* xml_get_child_element_by_name(node, "ChunkList")
ChildChunkList(d, n) ==
    IF AssetOf(d, n).chunklist # <<>> THEN ChunkListNode(n.asset) ELSE NullNode

\* xml_get_child_element_by_name(node, "Chunk"): the first Chunk
ChildChunk(d, n) ==
    IF Len(ChunksOf(d, n)) > 0 THEN ChunkNode(n.asset, 1) ELSE NullNode

\* xmlNodeGetContent(xml_get_child_element_by_name(node, "Path")): NULL when
\* the Chunk has no Path
PathContent(d, n) == ChunksOf(d, n)[n.chunk].path

(***************************************************************************)
(* The packages opened: s->url and the assetmap option.                    *)
(***************************************************************************)
AssetMapName == <<"A", ".", "x">>

Packages ==
    { [url |-> <<"/", "p", "/", "c">>, assetmap |-> <<>>],
      [url |-> <<"c">>, assetmap |-> <<>>],
      [url |-> <<"/", "p", "/", "c">>, assetmap |-> << <<"/", "a">> >>] }

(***************************************************************************)
(* State.                                                                  *)
(***************************************************************************)
VARIABLES
    pc,             \* position of the program
    caller,         \* who called parse_assetmap
    s_url,          \* s->url
    asset_map_path, \* c->asset_map_path, NULL or a path
    cpl,            \* c->cpl, "NULL" or "parsed"
    base_url,       \* c->base_url, NULL or a directory
    asset_map,      \* c->asset_map, "NULL" or the address "reg"
    heap_reg,       \* the IMFAssetMap object: "none", "live" or "freed"
    reg_frees,      \* calls of av_free on the IMFAssetMap object
    assets,         \* asset_map->assets: the locators stored
    assets_size,    \* bytes allocated for asset_map->assets
    asset_count,    \* asset_map->asset_count
    asset,          \* the parser's local asset
    locators,       \* IMFAssetLocator objects allocated and not freed
    uris,           \* absolute_uri strings allocated and not freed
    node,           \* the parser's local node
    doc,            \* the document xmlReadMemory built
    doc_state,      \* "none", "live" or "freed"
    buf,            \* the AVBPrint buffer: "none" or "live"
    in,             \* parse_assetmap's stream: "NULL", "caller" or "opened"
    close_in,
    in_closes,      \* calls of avio_close on the stream
    ret,            \* parse_assetmap's ret
    open_ret,       \* what imf_read_header returned, once it has
    closes,         \* calls of imf_close made by the application
    oom,            \* an allocation returned NULL
    fault,          \* the memory fault the process stopped on
    spin,           \* parity of the loop iterations that took `continue`
    read_result,    \* how the read of the stream ended, once it has
    called,         \* the functions parse_assetmap called on the bytes read
    visited         \* children of AssetList the loop body was entered for

vars == <<pc, caller, s_url, asset_map_path, cpl, base_url, asset_map, heap_reg,
          reg_frees, assets, assets_size, asset_count, asset, locators, uris,
          node, doc, doc_state, buf, in, close_in, in_closes, ret, open_ret,
          closes, oom, fault, spin, read_result, called, visited>>

trace_vars == <<read_result, called, visited>>
ctx_vars == <<caller, s_url, asset_map_path, cpl>>
reg_vars == <<asset_map, heap_reg, reg_frees, assets, assets_size, asset_count>>
dom_vars == <<asset, node, doc>>
heap_vars == <<locators, uris>>
io_vars == <<buf, in, close_in, in_closes, doc_state>>

NullAsset == [ptr |-> "NULL", uuid |-> 0, absolute_uri |-> <<>>]
NewAsset == [ptr |-> "loc", uuid |-> 0, absolute_uri |-> <<>>]

\* the states in which the context was constructed and nothing has run: the
\* application is about to call imf_read_header, or parse_assetmap is called
\* on its own with a stream of the caller's
Init ==
    /\ \E p \in Packages :
        /\ s_url = p.url
        /\ asset_map_path = p.assetmap
    /\ \/ /\ caller = "imf_read_header"
          /\ pc = "unopened"
          /\ in = "NULL"
       \/ /\ caller = "direct"
          /\ pc = "pa_entry"
          /\ asset_map_path # <<>>
          /\ in = "caller"
    /\ cpl = "NULL"
    /\ base_url = <<>>
    /\ asset_map = "NULL"
    /\ heap_reg = "none"
    /\ reg_frees = 0
    /\ assets = <<>>
    /\ assets_size = 0
    /\ asset_count = 0
    /\ asset = NullAsset
    /\ locators = 0
    /\ uris = 0
    /\ node = NullNode
    /\ doc = NullDoc
    /\ doc_state = "none"
    /\ buf = "none"
    /\ close_in = 0
    /\ in_closes = 0
    /\ ret = 0
    /\ open_ret = <<>>
    /\ closes = 0
    /\ oom = FALSE
    /\ fault = "none"
    /\ spin = 0
    /\ read_result = "none"
    /\ called = {}
    /\ visited = 0

(***************************************************************************)
(* Registry: imf_asset_map_alloc and imf_asset_map_free.                   *)
(***************************************************************************)
\* imf_asset_map_free(c->asset_map), the caller going on at `next`.  The
\* function clears only its own parameter: c->asset_map keeps the address.
\* Called with the address of an object already freed, it reads and frees
\* freed memory: the allocator aborts the process or lets the call pass.
imf_asset_map_free(next) ==
    \/ /\ asset_map = "NULL"
       /\ pc' = next
       /\ UNCHANGED <<heap_reg, reg_frees, assets_size, locators, fault>>
    \/ /\ asset_map = "reg"
       /\ heap_reg = "live"
       /\ locators' = locators - asset_count
       /\ assets_size' = 0
       /\ heap_reg' = "freed"
       /\ reg_frees' = reg_frees + 1
       /\ pc' = next
       /\ UNCHANGED fault
    \/ /\ asset_map = "reg"
       /\ heap_reg = "freed"
       /\ reg_frees' = reg_frees + 1
       /\ \/ pc' = next /\ UNCHANGED fault
          \/ pc' = "fault" /\ fault' = "double_free"
       /\ UNCHANGED <<heap_reg, assets_size, locators>>

\* the body of imf_close: av_freep(&c->base_url), then the registry
imf_close_body(next) ==
    /\ base_url' = <<>>
    /\ imf_asset_map_free(next)
    /\ UNCHANGED <<asset_map, assets, asset_count, uris>>

(***************************************************************************)
(* imf_read_header.                                                        *)
(***************************************************************************)
\* variant of ReadHeaderCplFails: the result of parse_imf_cpl is not tested
ReadHeaderCplFailsMutGoesOn ==
    /\ pc = "unopened"
    /\ asset_map_path' =
         IF asset_map_path = <<>>
         THEN <<av_append_path_component(av_dirname(s_url), <<AssetMapName>>)>>
         ELSE asset_map_path
    /\ in' = "NULL"
    /\ pc' = "pa_entry"
    /\ UNCHANGED <<caller, s_url, cpl, trace_vars, base_url, reg_vars, dom_vars,
                   heap_vars, buf, close_in, in_closes, doc_state, ret, open_ret,
                   closes, oom, fault, spin>>

\* parse_imf_cpl fails: goto fail
ReadHeaderCplFails ==
    /\ pc = "unopened"
    /\ \E e \in {AVERROR_INVALIDDATA, AVERROR_EIO} :
        /\ ret' = e
        /\ open_ret' = <<e>>
    /\ imf_close_body("failed")
    /\ UNCHANGED <<ctx_vars, trace_vars, dom_vars, io_vars, closes, oom, spin>>

\* parse_imf_cpl succeeds; the Asset Map path defaults to the CPL's sibling
\* and parse_assetmap is called with no stream
ReadHeaderCplParsed ==
    /\ pc = "unopened"
    /\ cpl' = "parsed"
    /\ asset_map_path' =
         IF asset_map_path = <<>>
         THEN <<av_append_path_component(av_dirname(s_url), <<AssetMapName>>)>>
         ELSE asset_map_path
    /\ in' = "NULL"
    /\ pc' = "pa_entry"
    /\ UNCHANGED <<caller, s_url, trace_vars, base_url, reg_vars, dom_vars, heap_vars, buf,
                   close_in, in_closes, doc_state, ret, open_ret, closes, oom,
                   fault, spin>>

\* parse_assetmap returned a negative value: goto fail
ReadHeaderFail ==
    /\ pc = "rh_check"
    /\ ret < 0
    /\ open_ret' = <<ret>>
    /\ imf_close_body("failed")
    /\ UNCHANGED <<ctx_vars, trace_vars, dom_vars, io_vars, ret, closes, oom, spin>>

\* parse_assetmap returned zero or more: return 0
ReadHeaderDone ==
    /\ pc = "rh_check"
    /\ ~(ret < 0)
    /\ open_ret' = <<0>>
    /\ pc' = "ready"
    /\ UNCHANGED <<ctx_vars, trace_vars, base_url, reg_vars, dom_vars, heap_vars, io_vars,
                   ret, closes, oom, fault, spin>>

\* the application closes the context: imf_close
imf_close ==
    /\ pc \in {"ready", "failed", "closed"}
    /\ closes < MaxCloses
    /\ closes' = closes + 1
    /\ imf_close_body("closed")
    /\ UNCHANGED <<ctx_vars, trace_vars, dom_vars, io_vars, ret, open_ret, oom, spin>>

(***************************************************************************)
(* parse_assetmap.                                                         *)
(***************************************************************************)
\* `return r` of parse_assetmap
PaReturn(r) ==
    /\ ret' = r
    /\ pc' = IF caller = "imf_read_header" THEN "rh_check" ELSE "returned"

\* base_url and the registry; the registry failing to allocate returns
PaEntry ==
    /\ pc = "pa_entry"
    /\ base_url' = <<av_dirname(asset_map_path[1])>>
    /\ \/ /\ asset_map' = "reg"
          /\ heap_reg' = "live"
          /\ assets' = <<>>
          /\ assets_size' = 0
          /\ asset_count' = 0
          /\ pc' = "pa_open"
          /\ UNCHANGED <<ret, oom>>
       \/ /\ asset_map' = "NULL"
          /\ oom' = TRUE
          /\ PaReturn(AVERROR_BUG)
          /\ UNCHANGED <<heap_reg, assets, assets_size, asset_count>>
    /\ UNCHANGED <<ctx_vars, trace_vars, reg_frees, dom_vars, heap_vars, io_vars, open_ret,
                   closes, fault, spin>>

\* no stream was passed: open one, returning when that fails
PaOpen ==
    /\ pc = "pa_open"
    /\ \/ /\ in # "NULL"
          /\ pc' = "pa_read"
          /\ UNCHANGED <<in, close_in, ret>>
       \/ /\ in = "NULL"
          /\ close_in' = 1
          /\ \/ /\ in' = "opened"
                /\ pc' = "pa_read"
                /\ UNCHANGED ret
             \/ /\ PaReturn(AVERROR_EIO)
                /\ UNCHANGED in
    /\ UNCHANGED <<ctx_vars, trace_vars, base_url, reg_vars, dom_vars, heap_vars, buf,
                   in_closes, doc_state, open_ret, closes, oom, fault, spin>>

\* how avio_read_to_bprint can end: a read error, the stream not at its end,
\* no bytes, or all the bytes of the document
ReadOutcomes == {"error", "no_eof", "empty", "ok"}

\* what avio_read_to_bprint returns
ReadRet(outcome) == IF outcome = "error" THEN AVERROR_EIO ELSE 0

\* variant of ReadFailed: the test of buf.len left out
ReadFailedMutNoLen(outcome) == ReadRet(outcome) < 0 \/ outcome = "no_eof"

\* (ret = avio_read_to_bprint(...)) < 0 || !avio_feof(in) || buf.len == 0
ReadFailed(outcome) ==
    ReadRet(outcome) < 0 \/ outcome = "no_eof" \/ outcome = "empty"

\* av_bprint_init and the read.  A failed read leaves an error in ret, the
\* AVERROR_INVALIDDATA when the read itself returned 0; otherwise
\* xmlReadMemory turns the bytes into a tree, or NULL, and the parser is
\* called on it.
PaRead ==
    /\ pc = "pa_read"
    /\ buf' = "live"
    /\ \E outcome \in ReadOutcomes :
        /\ read_result' = outcome
        /\ IF ReadFailed(outcome)
           THEN /\ ret' = IF ReadRet(outcome) = 0 THEN AVERROR_INVALIDDATA
                           ELSE ReadRet(outcome)
                /\ pc' = "pa_close"
                /\ UNCHANGED <<doc, doc_state, called>>
           ELSE /\ \E d \in (IF outcome = "ok" THEN Documents ELSE {NullDoc}) :
                     /\ doc' = d
                     /\ doc_state' = IF d.parsed THEN "live" ELSE "none"
                /\ called' = {"xmlReadMemory", "parse_imf_asset_map_from_xml_dom"}
                /\ ret' = 0
                /\ pc' = "dom_root"
    /\ UNCHANGED <<ctx_vars, visited, base_url, reg_vars, asset, node, heap_vars, in,
                   close_in, in_closes, open_ret, closes, oom, fault, spin>>

\* cleanup: xmlFreeDoc
PaCleanup ==
    /\ pc = "pa_cleanup"
    /\ doc_state' = IF doc_state = "live" THEN "freed" ELSE doc_state
    /\ pc' = "pa_close"
    /\ UNCHANGED <<ctx_vars, trace_vars, base_url, reg_vars, dom_vars, heap_vars, buf, in,
                   close_in, in_closes, ret, open_ret, closes, oom, fault, spin>>

\* variant of PaClose: avio_close(in) without the test of close_in
PaCloseMutAlways ==
    /\ pc = "pa_close"
    /\ in_closes' = in_closes + 1
    /\ PaReturn(ret)
    /\ UNCHANGED <<ctx_vars, trace_vars, base_url, reg_vars, dom_vars, heap_vars, buf, in,
                   close_in, doc_state, open_ret, closes, oom, fault, spin>>

\* if (close_in) avio_close(in); return ret
PaClose ==
    /\ pc = "pa_close"
    /\ in_closes' = IF close_in # 0 THEN in_closes + 1 ELSE in_closes
    /\ PaReturn(ret)
    /\ UNCHANGED <<ctx_vars, trace_vars, base_url, reg_vars, dom_vars, heap_vars, buf, in,
                   close_in, doc_state, open_ret, closes, oom, fault, spin>>

(***************************************************************************)
(* parse_imf_asset_map_from_xml_dom.                                       *)
(***************************************************************************)
\* `return r` of the parser: parse_assetmap stores it in ret and goes to
\* cleanup whether or not it is zero
DomReturn(r) ==
    /\ ret' = r
    /\ pc' = "pa_cleanup"

\* variant of RootCheck: a missing AssetList returns 1
RootCheckMutOne(d) ==
    IF d.root = <<>> THEN AVERROR_INVALIDDATA
    ELSE IF av_strcasecmp(d.root[1], TagAssetMap) # 0 THEN AVERROR_INVALIDDATA
    ELSE IF d.assetlist = <<>> THEN 1
    ELSE 0

\* what the root and AssetList checks return, 0 when they pass
RootCheck(d) ==
    IF d.root = <<>> THEN AVERROR_INVALIDDATA
    ELSE IF av_strcasecmp(d.root[1], TagAssetMap) # 0 THEN AVERROR_INVALIDDATA
    ELSE IF d.assetlist = <<>> THEN AVERROR_INVALIDDATA
    ELSE 0

DomRoot ==
    /\ pc = "dom_root"
    /\ IF RootCheck(doc) # 0
       THEN /\ DomReturn(RootCheck(doc))
            /\ UNCHANGED node
       ELSE /\ node' = xmlFirstElementChild(doc)
            /\ pc' = "dom_loop"
            /\ UNCHANGED ret
    /\ UNCHANGED <<ctx_vars, trace_vars, base_url, reg_vars, asset, doc, heap_vars, io_vars,
                   open_ret, closes, oom, fault, spin>>

\* while (node) is over: return 0
DomLoopExit ==
    /\ pc = "dom_loop"
    /\ node = NullNode
    /\ DomReturn(0)
    /\ UNCHANGED <<ctx_vars, trace_vars, base_url, reg_vars, dom_vars, heap_vars, io_vars,
                   open_ret, closes, oom, fault, spin>>

\* the child is no Asset: continue, with node as it was
DomLoopContinue ==
    /\ pc = "dom_loop"
    /\ node # NullNode
    /\ av_strcasecmp(NodeName(doc, node), TagAsset) # 0
    /\ spin' = 1 - spin
    /\ UNCHANGED <<pc, ctx_vars, trace_vars, base_url, reg_vars, dom_vars, heap_vars, io_vars,
                   ret, open_ret, closes, oom, fault>>

\* the child is an Asset: asset = av_malloc(...), unchecked
DomLoopAsset ==
    /\ pc = "dom_loop"
    /\ node # NullNode
    /\ av_strcasecmp(NodeName(doc, node), TagAsset) = 0
    /\ \/ /\ asset' = NewAsset
          /\ locators' = locators + 1
          /\ UNCHANGED oom
       \/ /\ asset' = NullAsset
          /\ oom' = TRUE
          /\ UNCHANGED locators
    /\ visited' = visited + 1
    /\ pc' = "dom_id"
    /\ UNCHANGED <<ctx_vars, read_result, called, base_url, reg_vars, node, doc, uris, io_vars, ret,
                   open_ret, closes, fault, spin>>

\* xml_read_UUID into asset->uuid; on failure the asset is freed and the
\* parser returns 1.  Storing the uuid through a NULL asset faults.
DomId ==
    /\ pc = "dom_id"
    /\ IF xml_read_UUID(ChildId(doc, node)) # 0
       THEN /\ asset' = NullAsset
            /\ locators' = IF asset.ptr = "NULL" THEN locators ELSE locators - 1
            /\ DomReturn(1)
            /\ UNCHANGED fault
       ELSE IF asset.ptr = "NULL"
       THEN /\ fault' = "null_deref"
            /\ pc' = "fault"
            /\ UNCHANGED <<asset, locators, ret>>
       ELSE /\ asset' = [asset EXCEPT !.uuid = DecodeUuid(ChildId(doc, node)[1])]
            /\ pc' = "dom_chunklist"
            /\ UNCHANGED <<locators, ret, fault>>
    /\ UNCHANGED <<ctx_vars, trace_vars, base_url, reg_vars, node, doc, uris, io_vars,
                   open_ret, closes, oom, spin>>

\* variant of DomChunkList: an Asset without ChunkList or Chunk is passed
\* over and the loop goes on with the next child
DomChunkListMutSkip ==
    /\ pc = "dom_chunklist"
    /\ LET chunklist == ChildChunkList(doc, node)
       IN IF chunklist = NullNode \/ ChildChunk(doc, chunklist) = NullNode
          THEN /\ node' = xmlNextElementSibling(doc, node)
               /\ pc' = "dom_loop"
          ELSE /\ node' = ChildChunk(doc, chunklist)
               /\ pc' = "dom_path"
    /\ UNCHANGED <<ctx_vars, trace_vars, base_url, reg_vars, asset, doc, heap_vars,
                   io_vars, ret, open_ret, closes, oom, fault, spin>>

\* node = ChunkList, then node = its first Chunk; either missing returns
\* AVERROR_INVALIDDATA with the asset still allocated
DomChunkList ==
    /\ pc = "dom_chunklist"
    /\ LET chunklist == ChildChunkList(doc, node)
       IN IF chunklist = NullNode
          THEN /\ node' = NullNode
               /\ DomReturn(AVERROR_INVALIDDATA)
          ELSE IF ChildChunk(doc, chunklist) = NullNode
          THEN /\ node' = NullNode
               /\ DomReturn(AVERROR_INVALIDDATA)
          ELSE /\ node' = ChildChunk(doc, chunklist)
               /\ pc' = "dom_path"
               /\ UNCHANGED ret
    /\ UNCHANGED <<ctx_vars, trace_vars, base_url, reg_vars, asset, doc, heap_vars, io_vars,
                   open_ret, closes, oom, fault, spin>>

\* variant of AssetUri: the Path's content copied as it is
AssetUriMutRaw(base, content) ==
    IF content = <<>> THEN base ELSE content[1]

\* asset->absolute_uri: the Chunk's Path appended to base_url, copied
AssetUri(base, content) == av_append_path_component(base, content)

\* variant of NextCursor: the next sibling of the Chunk
NextCursorMutChunk(d, n) == xmlNextElementSibling(d, n)

\* node = xmlNextElementSibling(node->parent->parent)
NextCursor(d, n) == xmlNextElementSibling(d, Parent(Parent(n)))

\* the uri is stored and node moves to the Asset's next sibling
DomPath ==
    /\ pc = "dom_path"
    /\ asset' = [asset EXCEPT
                   !.absolute_uri = AssetUri(base_url[1], PathContent(doc, node))]
    /\ uris' = uris + 1
    /\ node' = NextCursor(doc, node)
    /\ pc' = "dom_append"
    /\ UNCHANGED <<ctx_vars, trace_vars, base_url, reg_vars, doc, locators, io_vars, ret,
                   open_ret, closes, oom, fault, spin>>

\* av_realloc(assets, asset_count + 1 * sizeof(IMFAssetLocator)): the bytes
\* asked for
ReallocSize(count) == count + 1 * SizeofAssetLocator

\* the bytes that assets[0..count] take
BytesUsed(count) == (count + 1) * SizeofPointer

\* variant of NextCount: the count left as it was
NextCountMutSame(count) == count

\* asset_count++
NextCount(count) == count + 1

\* the array is grown, unchecked, and the asset stored at assets[count++].
\* A NULL array faults; a store past the end of the block lands in the
\* allocator's slack or corrupts the heap.
DomAppend ==
    /\ pc = "dom_append"
    /\ \/ /\ assets_size' = ReallocSize(asset_count)
          /\ \/ /\ assets' = Append(assets, [uuid |-> asset.uuid,
                                             absolute_uri |-> asset.absolute_uri])
                /\ asset_count' = NextCount(asset_count)
                /\ pc' = "dom_loop"
                /\ UNCHANGED fault
             \/ /\ BytesUsed(asset_count) > ReallocSize(asset_count)
                /\ fault' = "heap_overflow"
                /\ pc' = "fault"
                /\ UNCHANGED <<assets, asset_count>>
          /\ UNCHANGED oom
       \/ /\ assets_size' = 0
          /\ oom' = TRUE
          /\ fault' = "null_deref"
          /\ pc' = "fault"
          /\ UNCHANGED <<assets, asset_count>>
    /\ UNCHANGED <<ctx_vars, trace_vars, base_url, asset_map, heap_reg, reg_frees, dom_vars,
                   heap_vars, io_vars, ret, open_ret, closes, spin>>

(***************************************************************************)
(* Specification.                                                          *)
(***************************************************************************)
Next ==
    \/ ReadHeaderCplFails
    \/ ReadHeaderCplParsed
    \/ ReadHeaderFail
    \/ ReadHeaderDone
    \/ imf_close
    \/ PaEntry
    \/ PaOpen
    \/ PaRead
    \/ PaCleanup
    \/ PaClose
    \/ DomRoot
    \/ DomLoopExit
    \/ DomLoopContinue
    \/ DomLoopAsset
    \/ DomId
    \/ DomChunkList
    \/ DomPath
    \/ DomAppend

Spec == Init /\ [][Next]_vars

\* the program is sequential: it takes its next step whenever it has one
FairSpec == Spec /\ WF_vars(Next)

(***************************************************************************)
(* Vocabulary of the properties.                                           *)
(***************************************************************************)
\* the parser has just returned to parse_assetmap
ParserReturned == pc = "pa_cleanup"

\* the parser ran to its end: it returned, or the process faulted inside it
ParserEnded == ParserReturned \/ (pc = "fault" /\ fault # "double_free")

\* parse_assetmap has returned
LoaderReturned ==
    \/ pc \in {"rh_check", "ready", "failed", "closed", "returned"}
    \/ pc = "fault" /\ fault = "double_free"

HasAssetList(d) == d.parsed /\ RootCheck(d) = 0

IsAssetElement(e) == av_strcasecmp(e.name, TagAsset) = 0

HasId(e) == e.id # <<>> /\ IsUuidText(e.id[1])

HasChunk(e) == e.chunklist # <<>> /\ Len(e.chunklist[1]) > 0

FirstPath(e) == e.chunklist[1][1].path

HasPath(e) == HasChunk(e) /\ FirstPath(e) # <<>> /\ FirstPath(e)[1] # <<>>

\* an Asset whose first Chunk has no Path, or an empty one
PathlessAsset(e) == IsAssetElement(e) /\ HasId(e) /\ HasChunk(e) /\ ~HasPath(e)

\* a step that runs imf_asset_map_free: imf_close, or the fail path of open
ReleaseStep == closes' = closes + 1 \/ pc' = "failed"

\* an Asset with Id, ChunkList, Chunk and Path
WellFormedAsset(e) == IsAssetElement(e) /\ HasId(e) /\ HasPath(e)

WellFormedDoc(d) ==
    /\ HasAssetList(d)
    /\ \A i \in 1..Len(Children(d)) : WellFormedAsset(Children(d)[i])

\* base and path joined with one separator
Joined(base, path) ==
    IF base[Len(base)] = "/" THEN base \o path ELSE base \o <<"/">> \o path

\* the path is filesystem-absolute or has a URL scheme
AbsoluteOrUrl(path) == path[1] = "/" \/ HasScheme(path)

\* the locator the i-th child of AssetList stands for
ExpectedEntry(d, base, i) ==
    LET e == Children(d)[i]
    IN [uuid |-> DecodeUuid(e.id[1]),
        absolute_uri |-> IF AbsoluteOrUrl(FirstPath(e)[1]) THEN FirstPath(e)[1]
                         ELSE Joined(base, FirstPath(e)[1])]

(***************************************************************************)
(* Properties.                                                             *)
(***************************************************************************)
\* C1: once the parser is entered it ends: with a finite AssetList, also one
\* that holds children that are not Assets, the parser eventually returns
\* (or the process stops on a fault).
C1_ParserTerminates == (pc = "dom_root") ~> ParserEnded

\* C2: for a well-formed Asset Map of N Assets, with no allocation failing,
\* the parser returns 0 with asset_count = N and the i-th entry carrying the
\* uuid and the path of the i-th Asset.
C2_WellFormedParsesAll ==
    (ParserEnded /\ ~oom /\ WellFormedDoc(doc)) =>
        /\ fault = "none"
        /\ ret = 0
        /\ asset_count = Len(Children(doc))
        /\ Len(assets) = Len(Children(doc))
        /\ \A i \in 1..Len(assets) : assets[i] = ExpectedEntry(doc, base_url[1], i)

\* C3: imf_read_header returns success only if the CPL parse and the Asset
\* Map parse both succeeded: a parser return other than 0 makes open fail
\* (stated for the runs in which no allocation fails).
C3_OpenSucceedsOnlyIfParsed ==
    (open_ret = <<0>> /\ ~oom) => (cpl = "parsed" /\ ret = 0)

\* C4: when the parser stops at an Asset whose Id is missing, empty or not a
\* UUID, it returns AVERROR_INVALIDDATA and has appended no entry for it.
C4_BadIdIsSchemaError ==
    (ParserReturned /\ ~oom /\ node.level = "Asset" /\ ~HasId(AssetOf(doc, node))) =>
        /\ ret = AVERROR_INVALIDDATA
        /\ asset_count = node.asset - 1

\* C5: when the first child of AssetList that is not a well-formed Asset is
\* an Asset whose first Chunk has a missing or empty Path, the parser returns
\* AVERROR_INVALIDDATA with the entries of the Assets before it and none for
\* it, and every entry of a registry comes from a present, non-empty Path.
C5_MissingPathIsSchemaError ==
    /\ (ParserReturned /\ ~oom /\ HasAssetList(doc)) =>
         \A i \in 1..Len(Children(doc)) :
            ( /\ PathlessAsset(Children(doc)[i])
              /\ \A j \in 1..(i - 1) : WellFormedAsset(Children(doc)[j]) ) =>
                (ret = AVERROR_INVALIDDATA /\ asset_count = i - 1)
    /\ (heap_reg = "live") =>
         \A i \in 1..Len(assets) :
            HasPath(Children(doc)[i]) /\ assets[i].absolute_uri # <<>>

\* C6: when the parser returns an error, every locator allocated is owned by
\* the registry or freed, and after the failed open no locator is allocated.
C6_NoLocatorLeakOnError ==
    /\ (ParserReturned /\ ~oom /\ ret # 0) => locators = asset_count
    /\ (pc = "failed" /\ ~oom) => locators = 0

\* C7: over one open and the close calls after it, the registry is freed
\* exactly once: never a second time, and once when the context is closed.
C7_RegistryFreedOnce ==
    /\ reg_frees <= 1
    /\ fault # "double_free"
    /\ (pc = "closed" /\ heap_reg # "none") => reg_frees = 1

\* C8: a release of a NULL or already released registry is a no-op: it
\* frees nothing and does not fault.
C8_ReleaseOfReleasedIsNoOp ==
    [][(ReleaseStep /\ heap_reg # "live") =>
          (reg_frees' = reg_frees /\ locators' = locators /\ fault' = fault)]_vars

C10_ClosesOnlyOwnStream ==
    /\ in_closes <= 1
    /\ (in_closes = 1) => in = "opened"
    /\ (LoaderReturned /\ in = "opened") => in_closes = 1

\* the loader opened the stream, the read failed, and the stream is closed
C10_Witness ==
    /\ pc = "failed"
    /\ in = "opened"
    /\ doc_state = "none"
    /\ in_closes = 1

(***************************************************************************)
(* Vocabulary of the properties of the loader, the order of open and the   *)
(* parser's failures.                                                      *)
(***************************************************************************)
\* the read of the Asset Map stream failed
ReadHasFailed == read_result \in {"error", "no_eof", "empty"}

\* the parser was called and is over, without a fault inside it
ParserOver ==
    /\ "parse_imf_asset_map_from_xml_dom" \in called
    /\ \/ pc \in {"pa_cleanup", "pa_close", "rh_check", "returned", "ready",
                  "failed", "closed"}
       \/ pc = "fault" /\ fault = "double_free"

\* Asset Map parsing has begun: parse_assetmap was entered
AssetMapStarted ==
    \/ pc \notin {"unopened", "failed", "closed"}
    \/ heap_reg # "none"
    \/ asset_map # "NULL"
    \/ base_url # <<>>
    \/ in # "NULL"
    \/ close_in # 0
    \/ oom

\* an Asset with a decodable Id, a ChunkList and a Chunk in it
CompleteAsset(e) == IsAssetElement(e) /\ HasId(e) /\ HasChunk(e)

\* an Asset with a decodable Id and no ChunkList, or no Chunk in it
ChunklessAsset(e) == IsAssetElement(e) /\ HasId(e) /\ ~HasChunk(e)

\* an Asset the parser fails on: no decodable Id, no ChunkList or no Chunk
FailingAsset(e) == IsAssetElement(e) /\ (~HasId(e) \/ ~HasChunk(e))

\* the root is missing or is no AssetMap, or the AssetList is missing
RootBroken(d) ==
    \/ d.root = <<>>
    \/ av_strcasecmp(d.root[1], TagAssetMap) # 0
    \/ d.assetlist = <<>>

\* one structural failure: of the root, or of an Asset that follows
\* well-formed Assets only
StructurallyBroken(d) ==
    \/ RootBroken(d)
    \/ \E i \in 1..Len(Children(d)) :
          /\ ChunklessAsset(Children(d)[i])
          /\ \A j \in 1..(i - 1) : WellFormedAsset(Children(d)[j])

\* an Asset whose ChunkList holds several Chunks
MultiChunk(e) == HasChunk(e) /\ Len(e.chunklist[1]) > 1

\* C11: when the read of the stream returns an error, does not reach the end
\* of the stream or yields no bytes, parse_assetmap ends with a negative ret,
\* calls neither xmlReadMemory nor the parser, and the registry has no entry.
C11_FailedReadStopsLoader ==
    ReadHasFailed =>
        /\ ret < 0
        /\ called = {}
        /\ asset_count = 0
        /\ assets = <<>>
        /\ LoaderReturned \/ pc = "pa_close"

\* the read yielded no bytes and the loader has returned
C11_Witness ==
    /\ read_result = "empty"
    /\ LoaderReturned
    /\ ret = AVERROR_INVALIDDATA
    /\ called = {}

\* C12: in imf_read_header Asset Map parsing (the registry, base_url, the
\* stream) begins only once the CPL is parsed; when the CPL parse fails, open
\* fails with no registry allocated and no stream opened.
C12_AssetMapAfterCpl ==
    (caller = "imf_read_header") =>
        /\ AssetMapStarted => cpl = "parsed"
        /\ (cpl = "NULL" /\ open_ret # <<>>) =>
              /\ pc \in {"failed", "closed"}
              /\ open_ret[1] < 0
              /\ heap_reg = "none"
              /\ in = "NULL"

\* the CPL parse failed and open returned
C12_Witness ==
    /\ caller = "imf_read_header"
    /\ pc = "failed"
    /\ cpl = "NULL"
    /\ open_ret # <<>>
    /\ heap_reg = "none"

\* C13: after a successful open and a close nothing allocated for the
\* registry is left: not the registry, the array, a locator or a locator's
\* absolute_uri.
C13_CloseFreesAll ==
    (pc = "closed" /\ open_ret = <<0>> /\ ~oom) =>
        /\ heap_reg = "freed"
        /\ assets_size = 0
        /\ locators = 0
        /\ uris = 0

C15_BufferReleased == LoaderReturned => buf # "live"

\* C16: a missing root, a root that is no AssetMap, a missing AssetList, a
\* missing ChunkList and a missing Chunk each make the parser return
\* AVERROR_INVALIDDATA, which parse_assetmap and imf_read_header return
\* unchanged, open failing (stated for the runs in which no allocation fails).
C16_StructuralFailurePropagates ==
    (ParserOver /\ ~oom /\ StructurallyBroken(doc)) =>
        /\ ret = AVERROR_INVALIDDATA
        /\ (open_ret # <<>>) =>
              (open_ret = <<AVERROR_INVALIDDATA>> /\ pc # "ready")

\* open failed on an Asset without ChunkList or Chunk
C16_Witness ==
    /\ pc = "failed"
    /\ "parse_imf_asset_map_from_xml_dom" \in called
    /\ ~RootBroken(doc)
    /\ StructurallyBroken(doc)
    /\ open_ret = <<AVERROR_INVALIDDATA>>

\* C17: when the k-th child is the first Asset the parser fails on, the
\* parser returns nonzero having entered the loop body k times, and the
\* registry holds the entries of the k-1 Assets before it, in order (stated
\* for the runs in which no allocation fails).
C17_FailFast ==
    (ParserReturned /\ ~oom /\ HasAssetList(doc)) =>
        \A k \in 1..Len(Children(doc)) :
            ( /\ FailingAsset(Children(doc)[k])
              /\ \A j \in 1..(k - 1) : CompleteAsset(Children(doc)[j]) ) =>
                /\ ret # 0
                /\ visited = k
                /\ asset_count = k - 1
                /\ Len(assets) = k - 1
                /\ \A i \in 1..(k - 1) :
                      /\ assets[i].uuid = DecodeUuid(Children(doc)[i].id[1])
                      /\ HasPath(Children(doc)[i]) =>
                            assets[i] = ExpectedEntry(doc, base_url[1], i)

\* the parser failed on the second of at least three children
C17_Witness ==
    /\ ParserReturned
    /\ ret # 0
    /\ visited = 2
    /\ asset_count = 1
    /\ Len(Children(doc)) >= 3
    /\ FailingAsset(Children(doc)[2])

\* C18: an Asset of several Chunks gets one entry, of its first Chunk's Path;
\* the other Chunks are no error, and the cursor goes on to the next sibling
\* of the Asset.
C18_FirstChunkOnly ==
    /\ (pc = "dom_append" /\ MultiChunk(Children(doc)[asset_count + 1])) =>
          /\ node = xmlNextElementSibling(doc, AssetNode(asset_count + 1))
          /\ asset.absolute_uri =
                ExpectedEntry(doc, base_url[1], asset_count + 1).absolute_uri
    /\ (heap_reg = "live" /\ assets # <<>>) =>
          /\ Len(assets) <= Len(Children(doc))
          /\ \A i \in 1..Len(assets) :
                (MultiChunk(Children(doc)[i]) /\ base_url # <<>>) =>
                    assets[i] = ExpectedEntry(doc, base_url[1], i)
    /\ (ParserReturned /\ ~oom /\ WellFormedDoc(doc)) =>
          (ret = 0 /\ asset_count = Len(Children(doc)))

\* the entry of an Asset of two Chunks, followed by the entry of its sibling
C18_Witness ==
    /\ heap_reg = "live"
    /\ base_url # <<>>
    /\ \E i \in 1..Len(assets) :
          /\ MultiChunk(Children(doc)[i])
          /\ i < Len(assets)
          /\ assets[i].absolute_uri = Joined(base_url[1], PathRel)

\* C19: when an allocation fails, the failed allocation is not dereferenced
\* and the loader returns an error.
C19_AllocationFailureReturns ==
    oom =>
        /\ fault # "null_deref"
        /\ LoaderReturned => ret < 0

=============================================================================
